---- MODULE Spec2Model ----
(***************************************************************************)
(* A model of the voice-driven streaming client:                           *)
(*   - useLiveApi (src/hooks/media/use-live-api.ts): the connected flag,   *)
(*     connect / disconnect, the event handlers bound to the session       *)
(*     client and the finalized-transcript command interpreter;            *)
(*   - the zustand stores of src/lib/state.ts (core memory, sidebar, turn  *)
(*     log) and the transcript logger of StreamingConsole;                 *)
(*   - the session client (lib/genai-live-client) and the playback engine  *)
(*     (lib/audio-streamer), whose code is not part of the sources at      *)
(*     hand: both are modelled from sections 4.1, 4.2 and 5 of the         *)
(*     specification.                                                      *)
(*                                                                         *)
(* Text is a sequence of one-character strings, so that toLowerCase, trim, *)
(* startsWith, substring and replace act on characters as they do in the   *)
(* source.  A character outside ASCII, and the backquote, is written by its *)
(* code point ("U+C774", "U+0060").                                        *)
(***************************************************************************)
EXTENDS Integers, Sequences, FiniteSets, TLC

VARIABLES
  status,         \* SessionClient: "Idle", "Connecting", "Open" or "Closed"
  transport,      \* SessionClient: the live transport handle, 0 when there is none
  nextTransport,  \* SessionClient: number of transports opened so far
  pendingAck,     \* transports whose peer acknowledgement has not arrived yet
  connected,      \* useLiveApi: the React state `connected`
  hConnected,     \* useLiveApi: `connected` as captured by the bound handlers
  listeners,      \* order of the 'inputTranscription' listeners on the client
  coreMemory,     \* useSettings.coreMemory
  isSidebarOpen,  \* useUI.isSidebarOpen
  turns,          \* useLogStore.turns
  inflight,       \* inbound events received from the peer, not yet dispatched
  sent,           \* number of events the peer has sent so far
  streamer,       \* audioStreamerRef.current: NoStreamer or the playback engine
  deviceTime,     \* the audio device clock
  cancelled,      \* history: connection attempts a disconnect() was issued after
  lateAcked,      \* history: cancelled attempts whose acknowledgement arrived since
  connectFrom,    \* history: session state in which client.connect last started
  fired,          \* history: the actions fired by the last interpreted transcript
  fed,            \* history: chunks handed to the engine since its last stop
  stops,          \* history: number of times the engine was stopped
  config,         \* useLiveApi: the React state `config`: an object, or null
  thrown,         \* history: the error the last host call or dispatch ended with
  upstream,       \* SessionClient: the tool response batches transmitted to the peer
  heard,          \* history: the dispatches so far, each a listener and the event it received
  alone,          \* history: per role (user, agent), the turns its chunks give on their own
  liveTransports, \* the transports that are open, of this client or of one it replaced
  client,         \* useLiveApi: the session client of the last render, by number
  hClient,        \* useLiveApi: the session client the effects are bound to
  isReconstructing,             \* Sidebar: a memory reconstruction awaits its text
  reconstructedMemory,          \* Sidebar: the text the reconstruction modal shows
  isReconstructionModalOpen,    \* Sidebar: the reconstruction modal is open
  isCompletingThought,          \* Sidebar: a thought completion awaits its text
  completedThought,             \* Sidebar: the text the thought completion modal shows
  isThoughtCompletionModalOpen, \* Sidebar: the thought completion modal is open
  generated,      \* history: how the last call of generateText completed
  voiced,         \* history: the transports opened by the start rule of the interpreter
  stoppedAt       \* history: the cursor of the engine when it was last stopped

clientVars == <<status, transport, nextTransport, pendingAck, upstream, liveTransports>>
hookVars   == <<connected, hConnected, listeners, config, client, hClient>>
sidebarVars == <<isReconstructing, reconstructedMemory, isReconstructionModalOpen,
                 isCompletingThought, completedThought, isThoughtCompletionModalOpen>>
storeVars  == <<coreMemory, isSidebarOpen, turns, sidebarVars>>
peerVars   == <<inflight, sent>>
audioVars  == <<streamer, deviceTime, fed, stops>>
histVars   == <<cancelled, lateAcked, connectFrom, fired, thrown, heard, alone, generated, voiced, stoppedAt>>
vars == <<clientVars, hookVars, storeVars, peerVars, audioVars, histVars>>

(***************************************************************************)
(* Bounds of the model.                                                    *)
(***************************************************************************)
MaxTransports == 2   \* connection attempts in one behaviour
MaxSent       == 2   \* events the peer sends in one behaviour
MaxSpoken     == 1   \* transcripts the peer sends where the commands are exercised
MaxAudio      == 3   \* audio events the peer sends where the engine is exercised
MaxToolCalls  == 2   \* tool-call batches the peer sends in one behaviour
MaxChunks     == 3   \* events the peer sends where the turn log is exercised
MaxClients    == 2   \* session clients made in one behaviour
MaxLog        == 5   \* turns in the log beyond which the host starts no text request
MaxInflight   == 1   \* events received and not yet dispatched
MaxTime       == 3   \* ticks of the device clock

(***************************************************************************)
(* The shapes of the values.                                               *)
(***************************************************************************)
\* an inbound event of the session client
Event(type, text, isFinal, data) ==
  [type |-> type, text |-> text, isFinal |-> isFinal, data |-> data]

\* ConversationTurn (the timestamp of a turn is not modelled)
Turn(role, text, isFinal) ==
  [text |-> text, isFinal |-> isFinal, role |-> role]

\* a chunk of the playback schedule
Scheduled(start, duration) == [start |-> start, duration |-> duration]

\* the playback engine
Engine(ready, cursor, schedule) ==
  [ready |-> ready, cursor |-> cursor, schedule |-> schedule]

\* a function call of a tool-call batch; args is the list of the members of
\* the argument object, each a pair of a key and a string value
FunctionCall(id, name, args) == [id |-> id, name |-> name, args |-> args]

\* the response to one function call
FunctionResponse(id, name, response) ==
  [id |-> id, name |-> name, response |-> response]

\* a batch of responses on its way to the peer; turnsBefore is history: the
\* length of the turn log when the batch was transmitted
Sent(functionResponses, turnsBefore) ==
  [functionResponses |-> functionResponses, turnsBefore |-> turnsBefore]

(***************************************************************************)
(* Text: the string operations the source uses.                            *)
(***************************************************************************)
Whitespace == {" ", "\t", "\n"}

UpperCase == <<"A", "B", "C", "D", "E", "F", "G", "H", "I", "J", "K", "L", "M",
               "N", "O", "P", "Q", "R", "S", "T", "U", "V", "W", "X", "Y", "Z">>
LowerCase == <<"a", "b", "c", "d", "e", "f", "g", "h", "i", "j", "k", "l", "m",
               "n", "o", "p", "q", "r", "s", "t", "u", "v", "w", "x", "y", "z">>

toLowerChar(c) ==
  IF \E i \in 1..26 : UpperCase[i] = c
  THEN LowerCase[CHOOSE i \in 1..26 : UpperCase[i] = c]
  ELSE c

toLowerCase(s) == [i \in 1..Len(s) |-> toLowerChar(s[i])]

RECURSIVE trimStart(_)
trimStart(s) ==
  IF s # <<>> /\ Head(s) \in Whitespace THEN trimStart(Tail(s)) ELSE s

RECURSIVE trimEnd(_)
trimEnd(s) ==
  IF s # <<>> /\ s[Len(s)] \in Whitespace
  THEN trimEnd(SubSeq(s, 1, Len(s) - 1))
  ELSE s

trim(s) == trimEnd(trimStart(s))

startsWith(s, p) == Len(s) >= Len(p) /\ SubSeq(s, 1, Len(p)) = p

\* s.substring(n)
substring(s, n) == SubSeq(s, n + 1, Len(s))

\* the characters of the class [.,?]
Punctuation == {".", ",", "?"}

IsNotPunctuation(c) == c \notin Punctuation

\* s.replace(/[.,?]/g, ''): every occurrence is removed
stripPunctuation(s) == SelectSeq(s, IsNotPunctuation)

\* list.includes(x)
includes(list, x) == \E i \in 1..Len(list) : list[i] = x

(***************************************************************************)
(* The command phrases and the log messages, as the source writes them.    *)
(***************************************************************************)
rememberPrefixes ==
  << <<"r", "e", "m", "e", "m", "b", "e", "r", " ", "t", "h", "i", "s">>,
     <<"m", "a", "k", "e", " ", "a", " ", "n", "o", "t", "e">>,
     <<"U+C774", "U+AC83", "U+C744", " ", "U+AE30", "U+C5B5", "U+D574">>,
     <<"U+BA54", "U+BAA8", "U+D574", " ", "U+B46C">> >>

openSettingsCommands == << <<"o", "p", "e", "n", " ", "s", "e", "t", "t", "i", "n", "g", "s">>, <<"s", "h", "o", "w", " ", "s", "e", "t", "t", "i", "n", "g", "s">> >>
closeSettingsCommands == << <<"c", "l", "o", "s", "e", " ", "s", "e", "t", "t", "i", "n", "g", "s">>, <<"h", "i", "d", "e", " ", "s", "e", "t", "t", "i", "n", "g", "s">> >>
startCommands == << <<"s", "t", "a", "r", "t", " ", "s", "t", "r", "e", "a", "m">>, <<"c", "o", "n", "n", "e", "c", "t">>, <<"s", "t", "a", "r", "t", " ", "c", "o", "n", "n", "e", "c", "t", "i", "o", "n">> >>
stopCommands == << <<"s", "t", "o", "p", " ", "s", "t", "r", "e", "a", "m">>, <<"d", "i", "s", "c", "o", "n", "n", "e", "c", "t">>, <<"e", "n", "d", " ", "c", "o", "n", "n", "e", "c", "t", "i", "o", "n">>, <<"s", "t", "o", "p">> >>
recallCommands ==
  << <<"w", "h", "a", "t", " ", "d", "i", "d", " ", "i", " ", "s", "a", "y">>,
     <<"w", "h", "a", "t", " ", "d", "i", "d", " ", "i", " ", "j", "u", "s", "t", " ", "s", "a", "y">>,
     <<"u", "n", "a", "b", "l", "e", " ", "t", "o", " ", "r", "e", "c", "a", "l", "l", " ", "w", "h", "a", "t", " ", "i", " ", "s", "t", "a", "t", "e", "d">>,
     <<"r", "e", "p", "e", "a", "t", " ", "t", "h", "a", "t">> >>

Quote == <<"\"">>
AddedToCoreMemory(content) == <<"A", "d", "d", "e", "d", " ", "t", "o", " ", "C", "o", "r", "e", " ", "M", "e", "m", "o", "r", "y", ":", " ", "\"">> \o content \o Quote
VoiceCommandRecognized(command) ==
  <<"V", "o", "i", "c", "e", " ", "c", "o", "m", "m", "a", "n", "d", " ", "r", "e", "c", "o", "g", "n", "i", "z", "e", "d", ":", " ", "\"">> \o command \o Quote
YouSaid(text) == <<"Y", "o", "u", " ", "s", "a", "i", "d", ":", " ", "\"">> \o text \o Quote
NoRecord == <<"I", " ", "d", "o", "n", "'", "t", " ", "h", "a", "v", "e", " ", "a", " ", "r", "e", "c", "o", "r", "d", " ", "o", "f", " ", "w", "h", "a", "t", " ", "y", "o", "u", " ", "l", "a", "s", "t", " ", "s", "a", "i", "d", ".">>

(***************************************************************************)
(* The state the handlers act on, as one record, so that a handler is an   *)
(* operator from state to state and handlers compose as calls do.          *)
(***************************************************************************)
Cur ==
  [ status        |-> status,
    transport     |-> transport,
    nextTransport |-> nextTransport,
    pendingAck    |-> pendingAck,
    connected     |-> connected,
    hConnected    |-> hConnected,
    coreMemory    |-> coreMemory,
    isSidebarOpen |-> isSidebarOpen,
    turns         |-> turns,
    streamer      |-> streamer,
    deviceTime    |-> deviceTime,
    cancelled     |-> cancelled,
    lateAcked     |-> lateAcked,
    connectFrom   |-> connectFrom,
    fired         |-> fired,
    fed           |-> fed,
    stops         |-> stops,
    config        |-> config,
    thrown        |-> thrown,
    upstream      |-> upstream,
    heard         |-> heard,
    alone         |-> alone,
    liveTransports |-> liveTransports,
    client        |-> client,
    hClient       |-> hClient,
    isReconstructing |-> isReconstructing,
    reconstructedMemory |-> reconstructedMemory,
    isReconstructionModalOpen |-> isReconstructionModalOpen,
    isCompletingThought |-> isCompletingThought,
    completedThought |-> completedThought,
    isThoughtCompletionModalOpen |-> isThoughtCompletionModalOpen,
    generated     |-> generated,
    voiced        |-> voiced,
    stoppedAt     |-> stoppedAt ]

\* the state in which a host call or the dispatch of an event starts
Call == [Cur EXCEPT !.thrown = "none"]

\* the call ends with an error (thrown, or the rejection of its promise)
Throw(s, error) == [s EXCEPT !.thrown = error]

\* the next state is s (listeners, inflight and sent are set by the actions)
Becomes(s) ==
  /\ status' = s.status
  /\ transport' = s.transport
  /\ nextTransport' = s.nextTransport
  /\ pendingAck' = s.pendingAck
  /\ connected' = s.connected
  /\ hConnected' = s.hConnected
  /\ coreMemory' = s.coreMemory
  /\ isSidebarOpen' = s.isSidebarOpen
  /\ turns' = s.turns
  /\ streamer' = s.streamer
  /\ deviceTime' = s.deviceTime
  /\ cancelled' = s.cancelled
  /\ lateAcked' = s.lateAcked
  /\ connectFrom' = s.connectFrom
  /\ fired' = s.fired
  /\ fed' = s.fed
  /\ stops' = s.stops
  /\ config' = s.config
  /\ thrown' = s.thrown
  /\ upstream' = s.upstream
  /\ heard' = s.heard
  /\ alone' = s.alone
  /\ liveTransports' = s.liveTransports
  /\ client' = s.client
  /\ hClient' = s.hClient
  /\ isReconstructing' = s.isReconstructing
  /\ reconstructedMemory' = s.reconstructedMemory
  /\ isReconstructionModalOpen' = s.isReconstructionModalOpen
  /\ isCompletingThought' = s.isCompletingThought
  /\ completedThought' = s.completedThought
  /\ isThoughtCompletionModalOpen' = s.isThoughtCompletionModalOpen
  /\ generated' = s.generated
  /\ voiced' = s.voiced
  /\ stoppedAt' = s.stoppedAt

(***************************************************************************)
(* The stores of src/lib/state.ts.                                         *)
(***************************************************************************)
\* a variant of appendToCoreMemory that puts no line break between entries
appendOnSameLine(s, memory) ==
  [s EXCEPT !.coreMemory = @ \o <<"-", " ">> \o memory]

\* useSettings.appendToCoreMemory
appendToCoreMemory(s, memory) ==
  [s EXCEPT !.coreMemory =
     IF @ # <<>> THEN @ \o <<"\n", "-", " ">> \o memory ELSE <<"-", " ">> \o memory]

\* useUI.toggleSidebar
toggleSidebar(s) == [s EXCEPT !.isSidebarOpen = ~@]

\* useLogStore.addTurn
addTurn(s, turn) == [s EXCEPT !.turns = Append(@, turn)]

\* useLogStore.clearTurns
clearTurns(s) == [s EXCEPT !.turns = <<>>]

\* useLogStore.updateLastTurn, for an update that gives text and isFinal
updateLastTurn(s, update) ==
  IF Len(s.turns) = 0
  THEN s
  ELSE [s EXCEPT !.turns[Len(s.turns)] =
          Turn(@.role, update.text, update.isFinal)]

(***************************************************************************)
(* SessionClient (lib/genai-live-client), from section 4.1 of the          *)
(* specification.  A transport is named by the number of the connection    *)
(* attempt that opened it.                                                 *)
(***************************************************************************)
\* disconnect(): tears down the transport if present, and is Idle at once
clientDisconnect(s) ==
  [s EXCEPT !.status = "Idle",
            !.transport = 0,
            !.liveTransports = @ \ {s.transport}]

\* connect(config): valid only from Idle or Closed; opens a new transport
\* and is Connecting until the peer acknowledges
clientConnect(s) ==
  LET t == s.nextTransport + 1
      s0 == [s EXCEPT !.connectFrom = s.status]
  IN IF s.status \in {"Idle", "Closed"}
     THEN [s0 EXCEPT !.status = "Connecting",
                     !.transport = t,
                     !.nextTransport = t,
                     !.pendingAck = @ \cup {t},
                     !.liveTransports = @ \cup {t}]
     ELSE s0

\* the peer's acknowledgement of transport t arrives: the session is Open
\* only if t is the live transport and still Connecting; a connect that was
\* cancelled meanwhile fails instead of completing
clientAcknowledged(s, t) ==
  LET s0 == [s EXCEPT !.pendingAck = @ \ {t},
                      !.lateAcked = IF t \in s.cancelled THEN @ \cup {t} ELSE @]
  IN IF s.status = "Connecting" /\ s.transport = t
     THEN [s0 EXCEPT !.status = "Open"]
     ELSE s0

\* the live transport fails, or the peer rejects or closes it: Closed at once
clientTransportClosed(s) ==
  [s EXCEPT !.status = "Closed",
            !.transport = 0,
            !.pendingAck = @ \ {s.transport},
            !.liveTransports = @ \ {s.transport}]

NotConnectedError == "not connected"

\* a variant of sendToolResponse that transmits in every state
clientSendsInEveryState(s, functionResponses) ==
  [s EXCEPT !.upstream = Append(@, Sent(functionResponses, Len(s.turns)))]

\* sendToolResponse(responses): transmits the batch in Open, and fails with
\* NotConnectedError in every other state
clientSendToolResponse(s, functionResponses) ==
  IF s.status = "Open"
  THEN [s EXCEPT !.upstream = Append(@, Sent(functionResponses, Len(s.turns)))]
  ELSE Throw(s, NotConnectedError)

(***************************************************************************)
(* AudioPlaybackEngine (lib/audio-streamer), from section 4.2 of the       *)
(* specification.  A chunk is given by its length in bytes; a sample is    *)
(* two bytes and lasts one tick of the device clock.                       *)
(***************************************************************************)
BytesPerSample == 2

NoStreamer == Engine(FALSE, 0, <<>>)

\* a freshly constructed engine
NewStreamer == Engine(TRUE, 0, <<>>)

Max(a, b) == IF a >= b THEN a ELSE b

Duration(bytes) == bytes \div BytesPerSample

\* a variant of addPCM16 that schedules at the device time, whatever the cursor
addPCM16AtNow(engine, now, bytes) ==
  Engine(engine.ready,
         now + Duration(bytes),
         Append(engine.schedule, Scheduled(now, Duration(bytes))))

\* a variant of stop that leaves the cursor where it is
stopKeepsCursor(engine, now) == Engine(engine.ready, engine.cursor, <<>>)

\* addChunk(bytes) at device time now
addPCM16(engine, now, bytes) ==
  LET start == Max(now, engine.cursor)
  IN Engine(engine.ready,
            start + Duration(bytes),
            Append(engine.schedule, Scheduled(start, Duration(bytes))))

\* stop() at device time now
stop(engine, now) == Engine(engine.ready, now, <<>>)

(***************************************************************************)
(* useLiveApi (src/hooks/media/use-live-api.ts).                           *)
(***************************************************************************)
\* a variant of the cleanup on a change of client that leaves the old client
\* as it is
clientChangedKeepsSession(s) == s

\* the cleanup of the effect on [client]: disconnect the old client
clientChanged(s) == clientDisconnect(s)

\* a new GenAILiveClient(apiKey, model): Idle, without a transport
newClient(s) == [s EXCEPT !.status = "Idle", !.transport = 0]

\* how a call completes: it returns a value, or it throws
Returned(value) == <<"returned", value>>
Threw(value)    == <<"threw", value>>
NotCalled       == <<"none", <<>> >>

\* how the request to the text service ends: with a text, or in a failure
Outcome(text, failed) == [text |-> text, failed |-> failed]

GenerateTextFailed == <<"A", "n", " ", "e", "r", "r", "o", "r", " ", "o", "c", "c", "u", "r", "r", "e", "d", " ", "w", "h", "i", "l", "e", " ", "t", "r", "y", "i", "n", "g", " ", "t", "o", " ", "g", "e", "n", "e", "r", "a", "t", "e", " ", "a", " ", "r", "e", "s", "p", "o", "n", "s", "e", ".">>

\* a variant of generateText that has no catch
generateTextWithoutCatch(outcome) ==
  IF outcome.failed THEN Threw(<<"r", "e", "q", "u", "e", "s", "t", " ", "f", "a", "i", "l", "e", "d">>) ELSE Returned(outcome.text)

\* generateText(prompt), by the outcome of ai.models.generateContent
generateText(outcome) ==
  IF outcome.failed THEN Returned(GenerateTextFailed) ELSE Returned(outcome.text)

\* the values of `config`: a configuration object (the initial {} is one), or
\* null
ConfigObject == "object"
NoConfig == "null"

ConfigError == "config has not been set"

\* a variant of connect without the teardown
connectWithoutTeardown(s) ==
  IF s.config = NoConfig THEN Throw(s, ConfigError) ELSE clientConnect(s)

\* a variant of connect that tears down before it looks at the configuration
connectTearsDownFirst(s) ==
  IF s.config = NoConfig
  THEN Throw(clientDisconnect(s), ConfigError)
  ELSE clientConnect(clientDisconnect(s))

\* connect: fails when no configuration is set; else tear down, then connect
connect(s) ==
  IF s.config = NoConfig
  THEN Throw(s, ConfigError)
  ELSE clientConnect(clientDisconnect(s))

\* the connection attempts a disconnect() cancels: the live one and those
\* whose acknowledgement is still on its way
Cancels(s) == s.pendingAck \cup ({s.transport} \ {0})

\* a variant of disconnect that clears the flag and leaves the client alone
disconnectFlagOnly(s) ==
  [s EXCEPT !.connected = FALSE, !.cancelled = @ \cup Cancels(s)]

\* disconnect
disconnect(s) ==
  [clientDisconnect(s) EXCEPT !.connected = FALSE,
                              !.cancelled = @ \cup Cancels(s)]

onOpen(s) == [s EXCEPT !.connected = TRUE]

\* a variant of onClose that leaves the flag as it is
onCloseKeepsFlag(s) == s

onClose(s) == [s EXCEPT !.connected = FALSE]

stopAudioStreamer(s) ==
  IF s.streamer.ready
  THEN [s EXCEPT !.streamer = stop(@, s.deviceTime),
                 !.fed = <<>>,
                 !.stops = @ + 1,
                 !.stoppedAt = s.streamer.cursor]
  ELSE s

onAudio(s, data) ==
  IF s.streamer.ready
  THEN [s EXCEPT !.streamer = addPCM16(@, s.deviceTime, data),
                 !.fed = Append(@, data)]
  ELSE s

\* a variant of addLog that writes nothing
addLogNothing(s, text) == s

addLog(s, text) ==
  addTurn(s, Turn("system", text, TRUE))

\* JSON.stringify(args, null, 2) of an object whose values are strings
RECURSIVE members(_)
members(args) ==
  IF args = <<>>
  THEN <<>>
  ELSE <<" ", " ", "\"">> \o Head(args)[1] \o <<"\"", ":", " ", "\"">> \o Head(args)[2] \o Quote
         \o (IF Tail(args) = <<>> THEN <<>> ELSE <<",", "\n">> \o members(Tail(args)))

stringifyArgs(args) ==
  IF args = <<>> THEN <<"{", "}">> ELSE <<"{", "\n">> \o members(args) \o <<"\n", "}">>

\* JSON.stringify(functionResponses, null, 2)
RECURSIVE elements(_)
elements(functionResponses) ==
  IF functionResponses = <<>>
  THEN <<>>
  ELSE <<" ", " ", "{", "\n", " ", " ", " ", " ", "\"", "i", "d", "\"", ":", " ", "\"">> \o Head(functionResponses).id
         \o <<"\"", ",", "\n", " ", " ", " ", " ", "\"", "n", "a", "m", "e", "\"", ":", " ", "\"">> \o Head(functionResponses).name
         \o <<"\"", ",", "\n", " ", " ", " ", " ", "\"", "r", "e", "s", "p", "o", "n", "s", "e", "\"", ":", " ", "{", "\n", " ", " ", " ", " ", " ", " ", "\"", "r", "e", "s", "u", "l", "t", "\"", ":", " ", "\"">>
         \o Head(functionResponses).response.result
         \o <<"\"", "\n", " ", " ", " ", " ", "}", "\n", " ", " ", "}">>
         \o (IF Tail(functionResponses) = <<>>
             THEN <<>>
             ELSE <<",", "\n">> \o elements(Tail(functionResponses)))

stringifyResponses(functionResponses) ==
  IF functionResponses = <<>>
  THEN <<"[", "]">>
  ELSE <<"[", "\n">> \o elements(functionResponses) \o <<"\n", "]">>

triggerMessage(fc) ==
  <<"T", "r", "i", "g", "g", "e", "r", "i", "n", "g", " ", "f", "u", "n", "c", "t", "i", "o", "n", " ", "c", "a", "l", "l", ":", " ", "*", "*">> \o fc.name \o <<"*", "*", "\n", "U+0060", "U+0060", "U+0060", "j", "s", "o", "n", "\n">>
    \o stringifyArgs(fc.args) \o <<"\n", "U+0060", "U+0060", "U+0060">>

responseMessage(functionResponses) ==
  <<"F", "u", "n", "c", "t", "i", "o", "n", " ", "c", "a", "l", "l", " ", "r", "e", "s", "p", "o", "n", "s", "e", ":", "\n", "U+0060", "U+0060", "U+0060", "j", "s", "o", "n", "\n">>
    \o stringifyResponses(functionResponses) \o <<"\n", "U+0060", "U+0060", "U+0060">>

\* the simple, hard-coded function response
OkResponse == [result |-> <<"o", "k">>]

\* the loop over toolCall.functionCalls: the log entries
RECURSIVE logFunctionCalls(_, _)
logFunctionCalls(s, functionCalls) ==
  IF functionCalls = <<>>
  THEN s
  ELSE logFunctionCalls(addLog(s, triggerMessage(Head(functionCalls))),
                        Tail(functionCalls))

\* the loop over toolCall.functionCalls: the responses
responsesTo(functionCalls) ==
  [i \in 1..Len(functionCalls) |->
     FunctionResponse(functionCalls[i].id, functionCalls[i].name, OkResponse)]

\* a variant of onToolCall that sends the responses before it logs the calls
onToolCallSendsFirst(s, functionCalls) ==
  LET functionResponses == responsesTo(functionCalls)
      s1 == logFunctionCalls(clientSendToolResponse(s, functionResponses),
                             functionCalls)
  IN IF Len(functionResponses) > 0
     THEN addLog(s1, responseMessage(functionResponses))
     ELSE s1

onToolCall(s, functionCalls) ==
  LET functionResponses == responsesTo(functionCalls)
      s1 == logFunctionCalls(s, functionCalls)
      s2 == IF Len(functionResponses) > 0
            THEN addLog(s1, responseMessage(functionResponses))
            ELSE s1
  IN clientSendToolResponse(s2, functionResponses)

(***************************************************************************)
(* The handlers of Sidebar (src/lib/state.ts) that use generateText.  Each *)
(* runs up to its await, and goes on when generateText has completed.      *)
(***************************************************************************)
handleReconstructMemory(s) ==
  addTurn([s EXCEPT !.isReconstructing = TRUE],
          Turn("system",
               <<"I", "n", "i", "t", "i", "a", "t", "i", "n", "g", " ", "m", "e", "m", "o", "r", "y", " ", "r", "e", "c", "o", "n", "s", "t", "r", "u", "c", "t", "i", "o", "n", " ", "b", "a", "s", "e", "d", " ", "o", "n", " ", "C", "o", "r", "e", " ", "M", "e", "m", "o", "r", "y", " ", "f", "r", "a", "g", "m", "e", "n", "t", "s", ".", ".", ".">>,
               TRUE))

\* handleReconstructMemory after `await generateText(prompt)`
reconstructMemoryResumes(s, completion) ==
  LET s1 ==
        IF completion[1] = "returned"
        THEN addTurn([s EXCEPT !.reconstructedMemory = completion[2],
                               !.isReconstructionModalOpen = TRUE],
                     Turn("system",
                          <<"M", "e", "m", "o", "r", "y", " ", "r", "e", "c", "o", "n", "s", "t", "r", "u", "c", "t", "i", "o", "n", " ", "s", "i", "m", "u", "l", "a", "t", "i", "o", "n", " ", "c", "o", "m", "p", "l", "e", "t", "e", ".", " ", "S", "e", "e", " ", "m", "o", "d", "a", "l", " ", "f", "o", "r", " ", "a", "n", "a", "l", "y", "s", "i", "s", ".">>,
                          TRUE))
        ELSE addTurn(s,
                     Turn("system",
                          <<"M", "e", "m", "o", "r", "y", " ", "r", "e", "c", "o", "n", "s", "t", "r", "u", "c", "t", "i", "o", "n", " ", "f", "a", "i", "l", "e", "d", ".", " ", "P", "l", "e", "a", "s", "e", " ", "c", "h", "e", "c", "k", " ", "t", "h", "e", " ", "c", "o", "n", "s", "o", "l", "e", " ", "f", "o", "r", " ", "e", "r", "r", "o", "r", "s", ".">>,
                          TRUE))
  IN [s1 EXCEPT !.isReconstructing = FALSE]

handleCompleteThought(s) ==
  addTurn([s EXCEPT !.isCompletingThought = TRUE],
          Turn("system",
               <<"A", "n", "a", "l", "y", "z", "i", "n", "g", " ", "f", "u", "l", "l", " ", "c", "o", "n", "v", "e", "r", "s", "a", "t", "i", "o", "n", " ", "c", "o", "n", "t", "e", "x", "t", " ", "t", "o", " ", "p", "r", "e", "d", "i", "c", "t", " ", "t", "h", "e", " ", "n", "e", "x", "t", " ", "l", "o", "g", "i", "c", "a", "l", " ", "t", "h", "o", "u", "g", "h", "t", ".", ".", ".">>,
               TRUE))

\* handleCompleteThought after `await generateText(prompt)`
completeThoughtResumes(s, completion) ==
  LET s1 ==
        IF completion[1] = "returned"
        THEN addTurn([s EXCEPT !.completedThought = completion[2],
                               !.isThoughtCompletionModalOpen = TRUE],
                     Turn("system",
                          <<"T", "h", "o", "u", "g", "h", "t", " ", "c", "o", "m", "p", "l", "e", "t", "i", "o", "n", " ", "s", "i", "m", "u", "l", "a", "t", "i", "o", "n", " ", "c", "o", "m", "p", "l", "e", "t", "e", ".", " ", "S", "e", "e", " ", "m", "o", "d", "a", "l", " ", "f", "o", "r", " ", "a", "n", "a", "l", "y", "s", "i", "s", ".">>,
                          TRUE))
        ELSE addTurn(s,
                     Turn("system",
                          <<"T", "h", "o", "u", "g", "h", "t", " ", "c", "o", "m", "p", "l", "e", "t", "i", "o", "n", " ", "f", "a", "i", "l", "e", "d", ".", " ", "P", "l", "e", "a", "s", "e", " ", "c", "h", "e", "c", "k", " ", "t", "h", "e", " ", "c", "o", "n", "s", "o", "l", "e", " ", "f", "o", "r", " ", "e", "r", "r", "o", "r", "s", ".">>,
                          TRUE))
  IN [s1 EXCEPT !.isCompletingThought = FALSE]

\* history: the interpreter fires an action
Fire(s, action) == [s EXCEPT !.fired = Append(@, action)]

\* history: the transports opened between s and s1 were opened by a voice command
Voiced(s, s1) ==
  [s1 EXCEPT !.voiced = @ \cup ((s.nextTransport + 1)..s1.nextTransport)]

\* the payload of a remember command
contentToRemember(originalText, prefix) ==
  LET rest == trim(substring(originalText, Len(prefix)))
  IN IF startsWith(rest, <<":">>) THEN trim(substring(rest, 1)) ELSE rest

\* the loop over rememberPrefixes returns at prefix i
Remembers(originalText, i) ==
  /\ startsWith(toLowerCase(originalText), rememberPrefixes[i])
  /\ contentToRemember(originalText, rememberPrefixes[i]) # <<>>

IsFinalUserTurn(turn) == turn.role = "user" /\ turn.isFinal

\* a variant of lastUserTurn that searches from the oldest turn
firstUserTurn(log) ==
  IF \E i \in 1..Len(log) : IsFinalUserTurn(log[i])
  THEN CHOOSE i \in 1..Len(log) :
         /\ IsFinalUserTurn(log[i])
         /\ \A j \in 1..(i - 1) : ~IsFinalUserTurn(log[j])
  ELSE 0

\* [...turns].reverse().find(...): the index of the turn found, 0 if none
lastUserTurn(log) ==
  IF \E i \in 1..Len(log) : IsFinalUserTurn(log[i])
  THEN CHOOSE i \in 1..Len(log) :
         /\ IsFinalUserTurn(log[i])
         /\ \A j \in (i + 1)..Len(log) : ~IsFinalUserTurn(log[j])
  ELSE 0

recall(s, command) ==
  LET s1 == addLog(Fire(s, "recall"), VoiceCommandRecognized(command))
      k == lastUserTurn(s1.turns)
  IN IF k # 0
     THEN addLog(s1, YouSaid(s1.turns[k].text))
     ELSE addLog(s1, NoRecord)

\* a variant of exactMatch whose last rule takes every phrase the other
\* rules leave
exactMatchOrRecall(s, command) ==
  IF \/ includes(openSettingsCommands, command)
     \/ includes(closeSettingsCommands, command)
     \/ includes(startCommands, command)
     \/ includes(stopCommands, command)
  THEN s
  ELSE recall(s, command)

\* the chain of exact-match rules
exactMatch(s, command) ==
  IF includes(openSettingsCommands, command)
  THEN IF ~s.isSidebarOpen
       THEN addLog(toggleSidebar(Fire(s, "open-settings")),
                   VoiceCommandRecognized(command))
       ELSE s
  ELSE IF includes(closeSettingsCommands, command)
  THEN IF s.isSidebarOpen
       THEN addLog(toggleSidebar(Fire(s, "close-settings")),
                   VoiceCommandRecognized(command))
       ELSE s
  ELSE IF includes(startCommands, command)
  THEN IF ~s.hConnected
       THEN addLog(Voiced(s, connect(Fire(s, "start-session"))),
                   VoiceCommandRecognized(command))
       ELSE s
  ELSE IF includes(stopCommands, command)
  THEN IF s.hConnected
       THEN addLog(disconnect(Fire(s, "stop-session")),
                   VoiceCommandRecognized(command))
       ELSE s
  ELSE IF includes(recallCommands, command)
  THEN recall(s, command)
  ELSE s

\* the body of onInputTranscription for a final transcript
interpret(s, text) ==
  LET command == stripPunctuation(trim(toLowerCase(text)))
      originalText == trim(text)
  IN IF \E i \in 1..Len(rememberPrefixes) : Remembers(originalText, i)
     THEN LET i == CHOOSE i \in 1..Len(rememberPrefixes) :
                     /\ Remembers(originalText, i)
                     /\ \A j \in 1..(i - 1) : ~Remembers(originalText, j)
              content == contentToRemember(originalText, rememberPrefixes[i])
          IN addLog(appendToCoreMemory(Fire(s, "memory-append"), content),
                    AddedToCoreMemory(content))
     ELSE exactMatch(s, command)

\* a variant of onInputTranscription without the isFinal guard
onEveryTranscription(s, text, isFinal) == interpret(s, text)

onInputTranscription(s, text, isFinal) ==
  IF ~isFinal THEN s ELSE interpret(s, text)

(***************************************************************************)
(* StreamingConsole (src/lib/state.ts): the transcript logger.             *)
(***************************************************************************)
\* a variant of logTranscription that puts the chunk in the place of the text
\* the turn has
logTranscriptionReplaces(s, role, text, isFinal) ==
  LET n == Len(s.turns)
  IN IF n > 0 /\ s.turns[n].role = role /\ ~s.turns[n].isFinal
     THEN updateLastTurn(s, [text |-> text, isFinal |-> isFinal])
     ELSE addTurn(s, Turn(role, text, isFinal))

\* a variant of logTranscription that also adds to a last turn that is final
logTranscriptionIntoFinal(s, role, text, isFinal) ==
  LET n == Len(s.turns)
  IN IF n > 0 /\ s.turns[n].role = role
     THEN updateLastTurn(s, [text |-> s.turns[n].text \o text, isFinal |-> isFinal])
     ELSE addTurn(s, Turn(role, text, isFinal))

logTranscription(s, role, text, isFinal) ==
  LET n == Len(s.turns)
  IN IF n > 0 /\ s.turns[n].role = role /\ ~s.turns[n].isFinal
     THEN updateLastTurn(s, [text |-> s.turns[n].text \o text, isFinal |-> isFinal])
     ELSE addTurn(s, Turn(role, text, isFinal))

\* parts.map(part => 'text' in part ? part.text : '').join(' '), for parts
\* given by their text, the empty text for a part that has none
RECURSIVE joinParts(_)
joinParts(parts) ==
  IF parts = <<>>
  THEN <<>>
  ELSE IF Tail(parts) = <<>>
  THEN Head(parts)
  ELSE Head(parts) \o <<" ">> \o joinParts(Tail(parts))

\* onContent, for a content that has a modelTurn with these parts
consoleOnContent(s, parts) ==
  IF joinParts(parts) # <<>>
  THEN addTurn(s, Turn("agent", joinParts(parts), TRUE))
  ELSE s

\* Sidebar: handleClearHistory
handleClearHistory(s) ==
  addTurn(clearTurns(s), Turn("system", <<"C", "o", "n", "v", "e", "r", "s", "a", "t", "i", "o", "n", " ", "h", "i", "s", "t", "o", "r", "y", " ", "c", "l", "e", "a", "r", "e", "d", ".">>, TRUE))

\* the place of a role in `alone`
RoleIndex(role) == IF role = "user" THEN 1 ELSE 2

\* history: what the chunk makes of the turns of its role, were the log made
\* of the chunks of this role only
Alone(s, role, text, isFinal) ==
  [s EXCEPT !.alone[RoleIndex(role)] =
     logTranscription([s EXCEPT !.turns = s.alone[RoleIndex(role)]],
                      role, text, isFinal).turns]

consoleOnInputTranscription(s, text, isFinal) ==
  logTranscription(Alone(s, "user", text, isFinal), "user", text, isFinal)

consoleOnOutputTranscription(s, text, isFinal) ==
  logTranscription(Alone(s, "agent", text, isFinal), "agent", text, isFinal)

(***************************************************************************)
(* Inbound events and their dispatch to the bound listeners.               *)
(***************************************************************************)
InputTranscript(text, isFinal) == Event("inputTranscription", text, isFinal, 0)
AudioChunk(bytes) == Event("audio", <<>>, FALSE, bytes)
Interrupted == Event("interrupted", <<>>, FALSE, 0)
ToolCall(functionCalls) == Event("toolcall", <<>>, FALSE, functionCalls)
OutputTranscript(text, isFinal) == Event("outputTranscription", text, isFinal, 0)
Content(parts) == Event("content", <<>>, FALSE, parts)

\* history: the listener receives the event
Hear(s, listener, e) == [s EXCEPT !.heard = Append(@, <<listener, e>>)]

\* one listener of 'inputTranscription'
listen(s, listener, e) ==
  IF listener = "hook"
  THEN onInputTranscription(Hear(s, listener, e), e.text, e.isFinal)
  ELSE consoleOnInputTranscription(Hear(s, listener, e), e.text, e.isFinal)

\* client.emit: the listeners of the event run in registration order
emit(s, order, e) ==
  IF e.type = "inputTranscription"
  THEN listen(listen(s, order[1], e), order[2], e)
  ELSE IF e.type = "audio"
  THEN onAudio(Hear(s, "hook", e), e.data)
  ELSE IF e.type = "interrupted"
  THEN stopAudioStreamer(Hear(s, "hook", e))
  ELSE IF e.type = "toolcall"
  THEN onToolCall(Hear(s, "hook", e), e.data)
  ELSE IF e.type = "content"
  THEN consoleOnContent(Hear(s, "console", e), e.data)
  ELSE consoleOnOutputTranscription(Hear(s, "console", e), e.text, e.isFinal)

(***************************************************************************)
(* Inputs of the model.                                                    *)
(***************************************************************************)
\* what the peer transcribes, in the behaviours that race the connection
SessionTranscripts ==
  { <<"s", "t", "o", "p">>, <<"c", "o", "n", "n", "e", "c", "t">> }

\* what the peer transcribes, in the behaviours that exercise the commands
Transcripts ==
  { <<"s", "t", "o", "p">>, <<"c", "o", "n", "n", "e", "c", "t">>, <<"h", "e", "l", "l", "o">>, <<" ", "S", "t", "o", "p", " ", "S", "t", "r", "e", "a", "m", ".", " ">>, <<"o", "p", "e", "n", " ", "s", "e", "t", "t", "i", "n", "g", "s">>,
    <<"C", "l", "o", "s", "e", " ", "s", "e", "t", "t", "i", "n", "g", "s", "?">>, <<"W", "h", "a", "t", " ", "d", "i", "d", " ", "I", " ", "s", "a", "y", "?">>, <<"r", "e", "m", "e", "m", "b", "e", "r", " ", "t", "h", "i", "s", ":", " ", "B", "u", "y", " ", "m", "i", "l", "k">>,
    <<"r", "e", "m", "e", "m", "b", "e", "r", " ", "t", "h", "i", "s", ":">>, <<"M", "a", "k", "e", " ", "a", " ", "N", "o", "t", "e", " ", "t", "e", "a">>, <<"s", "t", ".", "o", "p">> }

\* the turn log restored from local storage when the store is created
PersistedLogs ==
  { <<>>,
    << Turn("user", <<"h", "i">>, TRUE),
       Turn("user", <<"B", "u", "y", " ", "m", "i", "l", "k">>, TRUE),
       Turn("user", <<"s", "t", "o">>, FALSE) >> }

\* what the host types into the core memory field
Memories == { <<>>, <<"-", " ", "t", "e", "a">> }

\* the chunks of the transcripts, where the turn log is exercised
Chunks == { <<"H", "e", "l">>, <<"l", "o">> }

\* the tool-call batches the peer sends
GetTime == FunctionCall(<<"c", "1">>, <<"g", "e", "t", "_", "t", "i", "m", "e">>, <<>>)
Lookup == FunctionCall(<<"c", "2">>, <<"l", "o", "o", "k", "u", "p">>, << <<<<"q">>, <<"t", "e", "a">>>>, <<<<"l", "a", "n", "g">>, <<"e", "n">>>> >>)

ToolCalls == { <<>>, <<GetTime>>, <<GetTime, Lookup>>, <<Lookup, GetTime>> }

\* the chunk sizes of the audio the peer sends, in bytes
ChunkSizes == {2, 4}

(***************************************************************************)
(* The state after construction.                                           *)
(***************************************************************************)
InitWith(logs) ==
  /\ status = "Idle"
  /\ transport = 0
  /\ nextTransport = 0
  /\ pendingAck = {}
  /\ connected = FALSE
  /\ hConnected = FALSE
  /\ listeners \in { <<"console", "hook">>, <<"hook", "console">> }
  /\ coreMemory = <<>>
  /\ isSidebarOpen = TRUE
  /\ turns \in logs
  /\ inflight = <<>>
  /\ sent = 0
  /\ streamer = NoStreamer
  /\ deviceTime = 0
  /\ cancelled = {}
  /\ lateAcked = {}
  /\ connectFrom = "none"
  /\ fired = <<>>
  /\ fed = <<>>
  /\ stops = 0
  /\ config = ConfigObject
  /\ thrown = "none"
  /\ upstream = <<>>
  /\ heard = <<>>
  /\ alone = << <<>>, <<>> >>
  /\ liveTransports = {}
  /\ client = 1
  /\ hClient = 1
  /\ isReconstructing = FALSE
  /\ reconstructedMemory = <<>>
  /\ isReconstructionModalOpen = FALSE
  /\ isCompletingThought = FALSE
  /\ completedThought = <<>>
  /\ isThoughtCompletionModalOpen = FALSE
  /\ generated = NotCalled
  /\ voiced = {}
  /\ stoppedAt = 0

\* a first visit: nothing is stored yet
Init == InitWith({<<>>})

\* a later visit: the turn log of an earlier one may be restored
InitRestored == InitWith(PersistedLogs)

(***************************************************************************)
(* Actions.                                                                *)
(***************************************************************************)
\* the host calls connect()
HostConnect ==
  /\ client = hClient
  /\ nextTransport < MaxTransports
  /\ Becomes(connect(Call))
  /\ UNCHANGED <<listeners, inflight, sent>>

\* the host calls disconnect()
HostDisconnect ==
  /\ client = hClient
  /\ Becomes(disconnect(Call))
  /\ UNCHANGED <<listeners, inflight, sent>>

\* the peer's acknowledgement of attempt t arrives; the client emits 'open'
\* when it opens the session
PeerAcknowledges(t) ==
  /\ t \in pendingAck
  /\ LET s1 == clientAcknowledged(Call, t)
     IN Becomes(IF s1.status = "Open" /\ status # "Open" THEN onOpen(s1) ELSE s1)
  /\ UNCHANGED <<listeners, inflight, sent>>

\* the transport fails or the peer closes it; the client emits 'close'
PeerCloses ==
  /\ status \in {"Connecting", "Open"}
  /\ Becomes(onClose(clientTransportClosed(Call)))
  /\ UNCHANGED <<listeners, inflight, sent>>

\* the peer sends an event on the open session, at most `limit` in all
PeerSends(e, limit) ==
  /\ status = "Open"
  /\ sent < limit
  /\ Len(inflight) < MaxInflight
  /\ inflight' = Append(inflight, e)
  /\ sent' = sent + 1
  /\ UNCHANGED <<clientVars, hookVars, storeVars, audioVars, histVars>>

\* the next inbound event is dispatched to the listeners
Deliver ==
  /\ inflight # <<>>
  /\ LET s1 == emit([Call EXCEPT !.fired = <<>>], listeners, Head(inflight))
     IN /\ s1.nextTransport <= MaxTransports
        /\ Becomes(s1)
  /\ inflight' = Tail(inflight)
  /\ UNCHANGED <<listeners, sent>>

\* a variant of EffectRerun in which the event on its way is lost between the
\* unbinding and the binding of the handlers
EffectRerunLosesEvent ==
  /\ hConnected # connected
  /\ hConnected' = connected
  /\ listeners' = <<"console", "hook">>
  /\ inflight' = <<>>
  /\ UNCHANGED <<clientVars, connected, config, client, hClient, storeVars, sent, audioVars, histVars>>

\* React runs the handler effect again after `connected` changed: the
\* handlers are unbound and bound anew, with the current value in scope
EffectRerun ==
  /\ client = hClient
  /\ hConnected # connected
  /\ hConnected' = connected
  /\ listeners' = <<"console", "hook">>
  /\ UNCHANGED <<clientVars, connected, config, client, hClient, storeVars, peerVars, audioVars, histVars>>

\* the host toggles the sidebar (Sidebar's close button)
HostTogglesSidebar ==
  /\ Becomes(toggleSidebar(Call))
  /\ UNCHANGED <<listeners, inflight, sent>>

\* the host edits the core memory (Sidebar's field, disabled while connected)
HostSetsCoreMemory(memory) ==
  /\ ~connected
  /\ coreMemory' = memory
  /\ UNCHANGED <<clientVars, hookVars, isSidebarOpen, turns, sidebarVars, peerVars, audioVars, histVars>>

\* the host presses "Reconstruct Memory" (disabled while a
\* reconstruction runs and while the core memory is blank)
HostReconstructsMemory ==
  /\ ~isReconstructing
  /\ trim(coreMemory) # <<>>
  /\ Len(turns) < MaxLog
  /\ Becomes(handleReconstructMemory(Call))
  /\ UNCHANGED <<listeners, inflight, sent>>

\* the host presses "Complete the Thought" (disabled while a completion
\* runs and while the log has fewer than two turns)
HostCompletesThought ==
  /\ ~isCompletingThought
  /\ Len(turns) >= 2
  /\ Len(turns) < MaxLog
  /\ Becomes(handleCompleteThought(Call))
  /\ UNCHANGED <<listeners, inflight, sent>>

\* the request of a reconstruction ends: generateText completes and the
\* handler goes on
ReconstructionSettles(outcome) ==
  /\ isReconstructing
  /\ LET completion == generateText(outcome)
     IN Becomes(reconstructMemoryResumes([Call EXCEPT !.generated = completion],
                                         completion))
  /\ UNCHANGED <<listeners, inflight, sent>>

\* the request of a thought completion ends
CompletionSettles(outcome) ==
  /\ isCompletingThought
  /\ LET completion == generateText(outcome)
     IN Becomes(completeThoughtResumes([Call EXCEPT !.generated = completion],
                                       completion))
  /\ UNCHANGED <<listeners, inflight, sent>>

\* the host presses "Clear History"
HostClearsHistory ==
  /\ Becomes(handleClearHistory(Call))
  /\ UNCHANGED <<listeners, inflight, sent>>

\* the host sets the configuration (setConfig)
HostSetsConfig(c) ==
  /\ config' = c
  /\ UNCHANGED <<clientVars, connected, hConnected, listeners, client, hClient, storeVars, peerVars, audioVars, histVars>>

\* the host changes the model: the next render makes a new session client;
\* the effects are still bound to the old one
HostChangesModel ==
  /\ client = hClient
  /\ client < MaxClients
  /\ client' = client + 1
  /\ UNCHANGED <<clientVars, connected, hConnected, listeners, config, hClient, storeVars, peerVars, audioVars, histVars>>

\* React runs the effects that depend on the client: the cleanups (the old
\* client is disconnected, the handlers are unbound from it), then the
\* handlers of the hook and of the console are bound to the new client.  The
\* events of the old client that were on their way find no handler
ClientReplaced ==
  /\ client # hClient
  /\ Becomes([newClient(clientChanged(Call)) EXCEPT
                !.hClient = client, !.hConnected = connected])
  /\ listeners' \in { <<"console", "hook">>, <<"hook", "console">> }
  /\ inflight' = <<>>
  /\ UNCHANGED sent

\* the audio context is there: the playback engine is created
StreamerCreated ==
  /\ ~streamer.ready
  /\ streamer' = NewStreamer
  /\ UNCHANGED <<clientVars, hookVars, storeVars, peerVars, deviceTime, fed, stops, histVars>>

\* the device clock advances
Tick ==
  /\ deviceTime < MaxTime
  /\ deviceTime' = deviceTime + 1
  /\ UNCHANGED <<clientVars, hookVars, storeVars, peerVars, streamer, fed, stops, histVars>>

\* the connection and the commands that race it
Next ==
  \/ HostConnect
  \/ HostDisconnect
  \/ \E t \in 1..MaxTransports : PeerAcknowledges(t)
  \/ PeerCloses
  \/ \E text \in SessionTranscripts, isFinal \in BOOLEAN :
       PeerSends(InputTranscript(text, isFinal), MaxSent)
  \/ Deliver
  \/ EffectRerun

Spec == Init /\ [][Next]_vars

\* the command interpreter on a session the host connects
NextCommands ==
  \/ HostConnect
  \/ \E t \in 1..MaxTransports : PeerAcknowledges(t)
  \/ \E text \in Transcripts, isFinal \in BOOLEAN :
       PeerSends(InputTranscript(text, isFinal), MaxSpoken)
  \/ Deliver
  \/ EffectRerun
  \/ HostTogglesSidebar
  \/ \E memory \in Memories : HostSetsCoreMemory(memory)

SpecCommands == InitRestored /\ [][NextCommands]_vars

\* the configuration and the calls of the host
NextConfig ==
  \/ \E c \in {ConfigObject, NoConfig} : HostSetsConfig(c)
  \/ HostConnect
  \/ HostDisconnect
  \/ \E t \in 1..MaxTransports : PeerAcknowledges(t)
  \/ PeerCloses

SpecConfig == Init /\ [][NextConfig]_vars

\* the tool calls of the peer on a session the host connects and disconnects
NextTools ==
  \/ HostConnect
  \/ HostDisconnect
  \/ \E t \in 1..MaxTransports : PeerAcknowledges(t)
  \/ PeerCloses
  \/ \E functionCalls \in ToolCalls :
       PeerSends(ToolCall(functionCalls), MaxToolCalls)
  \/ Deliver

SpecTools == Init /\ [][NextTools]_vars

\* the transcripts of both roles, and tool calls between them
NextLog ==
  \/ HostConnect
  \/ \E t \in 1..MaxTransports : PeerAcknowledges(t)
  \/ \E text \in Chunks, isFinal \in BOOLEAN :
       PeerSends(InputTranscript(text, isFinal), MaxChunks)
  \/ \E text \in Chunks, isFinal \in BOOLEAN :
       PeerSends(OutputTranscript(text, isFinal), MaxChunks)
  \/ PeerSends(ToolCall(<<GetTime>>), MaxChunks)
  \/ Deliver

SpecLog == Init /\ [][NextLog]_vars

\* the parts of the model turns the peer sends
ContentParts == { <<>>, << <<"H", "i">>, <<>> >> }

\* the turn log under transcripts, model turns, a command and clearing
NextTurns ==
  \/ HostConnect
  \/ \E t \in 1..MaxTransports : PeerAcknowledges(t)
  \/ \E text \in Chunks, isFinal \in BOOLEAN :
       PeerSends(InputTranscript(text, isFinal), MaxChunks)
  \/ \E text \in Chunks, isFinal \in BOOLEAN :
       PeerSends(OutputTranscript(text, isFinal), MaxChunks)
  \/ \E parts \in ContentParts : PeerSends(Content(parts), MaxChunks)
  \/ PeerSends(InputTranscript(<<"W", "h", "a", "t", " ", "d", "i", "d", " ", "I", " ", "s", "a", "y", "?">>, TRUE), MaxChunks)
  \/ Deliver
  \/ HostClearsHistory

SpecTurns == Init /\ [][NextTurns]_vars

\* the outcomes of a text request: a text, or a failure
Outcomes == { Outcome(<<"m", "e", "m", "o">>, FALSE), Outcome(<<>>, TRUE) }

\* the Sidebar's text requests, and the start command of the interpreter
NextAssist ==
  \/ \E memory \in Memories : HostSetsCoreMemory(memory)
  \/ HostReconstructsMemory
  \/ HostCompletesThought
  \/ \E outcome \in Outcomes : ReconstructionSettles(outcome)
  \/ \E outcome \in Outcomes : CompletionSettles(outcome)
  \/ HostConnect
  \/ \E t \in 1..MaxTransports : PeerAcknowledges(t)
  \/ PeerCloses
  \/ PeerSends(InputTranscript(<<"c", "o", "n", "n", "e", "c", "t">>, TRUE), MaxSpoken)
  \/ Deliver
  \/ EffectRerun

SpecAssist == Init /\ [][NextAssist]_vars

\* the session client is replaced while the session is used
NextClients ==
  \/ HostConnect
  \/ HostDisconnect
  \/ \E t \in 1..MaxTransports : PeerAcknowledges(t)
  \/ PeerCloses
  \/ PeerSends(InputTranscript(<<"c", "o", "n", "n", "e", "c", "t">>, TRUE), MaxSent)
  \/ Deliver
  \/ EffectRerun
  \/ HostChangesModel
  \/ ClientReplaced

SpecClients == Init /\ [][NextClients]_vars

NextAudio ==
  \/ HostConnect
  \/ \E t \in 1..MaxTransports : PeerAcknowledges(t)
  \/ StreamerCreated
  \/ \E bytes \in ChunkSizes : PeerSends(AudioChunk(bytes), MaxAudio)
  \/ PeerSends(Interrupted, MaxAudio)
  \/ Deliver
  \/ Tick

SpecAudio == Init /\ [][NextAudio]_vars

(***************************************************************************)
(* What the claims are stated with.                                        *)
(***************************************************************************)
\* this step dispatches the inbound event Head(inflight)
IsDeliver == inflight # <<>> /\ inflight' = Tail(inflight)

\* this step dispatches a final (or a non-final) input transcript
IsDeliverTranscript(isFinal) ==
  /\ IsDeliver
  /\ Head(inflight).type = "inputTranscription"
  /\ Head(inflight).isFinal = isFinal

IsSystemTurn(turn) == turn.role = "system"

\* the log entries the interpreter and the host write
SystemTurns(log) == SelectSeq(log, IsSystemTurn)

(***************************************************************************)
(* C1: once a disconnect() has been issued after a connect() began, that   *)
(* connect never leaves the session Open nor the connected flag true: the  *)
(* session is never Open on a transport a disconnect() cancelled, and the  *)
(* acknowledgement of a cancelled attempt, when it arrives, neither opens  *)
(* the session nor sets the flag.                                          *)
(***************************************************************************)
NoStaleOpen ==
  /\ [](status = "Open" => transport \notin cancelled)
  /\ [][\A t \in cancelled :
          (t \in pendingAck /\ t \notin pendingAck')
            => /\ status' = "Open" => status = "Open"
               /\ connected' => connected]_vars

\* the acknowledgement of a cancelled attempt has arrived, and the session
\* is Idle with the flag false
NoStaleOpenWitness ==
  /\ lateAcked # {}
  /\ status = "Idle"
  /\ ~connected

(***************************************************************************)
(* C2: an input transcript with isFinal = false triggers no command: no    *)
(* connect, no disconnect, no sidebar toggle, no change of the core memory *)
(* and no command log entry, whatever its text.                            *)
(***************************************************************************)
NonFinalTriggersNothing ==
  [][IsDeliverTranscript(FALSE)
       => /\ UNCHANGED <<clientVars, connected, coreMemory, isSidebarOpen>>
          /\ SystemTurns(turns') = SystemTurns(turns)
          /\ fired' = <<>>]_vars

\* a non-final " Stop Stream. " was dispatched to handlers that hold
\* connected = true, and the session is still open
NonFinalTriggersNothingWitness ==
  /\ turns = << Turn("user", <<" ", "S", "t", "o", "p", " ", "S", "t", "r", "e", "a", "m", ".", " ">>, FALSE) >>
  /\ inflight = <<>>
  /\ status = "Open"
  /\ connected
  /\ hConnected

(***************************************************************************)
(* C3: a finalized stop command received while connected triggers exactly  *)
(* one disconnect and exactly one command log entry; received while        *)
(* already disconnected it triggers no disconnect and no log entry.        *)
(***************************************************************************)
StopFollowsConnected ==
  [][(IsDeliverTranscript(TRUE) /\ Head(inflight).text = <<"s", "t", "o", "p">>)
       => IF connected
          THEN /\ fired' = <<"stop-session">>
               /\ status' = "Idle"
               /\ ~connected'
               /\ Len(SystemTurns(turns')) = Len(SystemTurns(turns)) + 1
          ELSE /\ fired' = <<>>
               /\ SystemTurns(turns') = SystemTurns(turns)]_vars

(***************************************************************************)
(* C4: a finalized transcript that is a remember prefix followed by a      *)
(* non-empty payload p (the remainder after the prefix, one optional       *)
(* leading colon stripped, trimmed, original case kept) makes the core     *)
(* memory "- p" if it was empty and the old memory followed by "\n- p"     *)
(* otherwise; with an empty payload the core memory is unchanged and no    *)
(* action fires.                                                           *)
(***************************************************************************)
\* text, trimmed, begins with remember prefix i, in any case
BeginsWithPrefix(text, i) ==
  LET t == trim(text)
      n == Len(rememberPrefixes[i])
  IN /\ Len(t) >= n
     /\ \A j \in 1..n : toLowerChar(t[j]) = rememberPrefixes[i][j]

\* what follows prefix i in text
Remainder(text, i) ==
  LET t == trim(text)
  IN SubSeq(t, Len(rememberPrefixes[i]) + 1, Len(t))

Colons(s) == Cardinality({j \in 1..Len(s) : s[j] = ":"})

\* r without its first k characters is the payload of r: what is left out is
\* white space and at most one colon, and no more of either could be left out
IsPayload(r, k) ==
  LET p == SubSeq(r, k + 1, Len(r))
  IN /\ \A j \in 1..k : r[j] \in Whitespace \cup {":"}
     /\ Colons(SubSeq(r, 1, k)) <= 1
     /\ p # <<>> => p[1] \notin Whitespace
     /\ (p # <<>> /\ Colons(SubSeq(r, 1, k)) = 0) => p[1] # ":"

RememberAppends ==
  [][\A i \in 1..Len(rememberPrefixes) :
       (IsDeliverTranscript(TRUE) /\ BeginsWithPrefix(Head(inflight).text, i))
         => LET r == Remainder(Head(inflight).text, i)
            IN \A k \in 0..Len(r) :
                 IsPayload(r, k)
                   => LET p == SubSeq(r, k + 1, Len(r))
                      IN IF p # <<>>
                         THEN /\ coreMemory' =
                                   IF coreMemory = <<>>
                                   THEN <<"-", " ">> \o p
                                   ELSE coreMemory \o <<"\n", "-", " ">> \o p
                              /\ fired' = <<"memory-append">>
                         ELSE /\ coreMemory' = coreMemory
                              /\ fired' = <<>>]_vars

\* "remember this: Buy milk" was appended to the memory the host had typed
RememberAppendsWitness ==
  /\ coreMemory = <<"-", " ", "t", "e", "a", "\n", "-", " ", "B", "u", "y", " ", "m", "i", "l", "k">>
  /\ fired = <<"memory-append">>

(***************************************************************************)
(* C5: the reply of a recall command is the fixed "no record" message when *)
(* the turn log holds no final user turn, and otherwise reproduces         *)
(* verbatim the text of the most recent final user turn of the log.        *)
(***************************************************************************)
IsRecallReply(turn) ==
  /\ IsSystemTurn(turn)
  /\ turn.text = NoRecord \/ startsWith(turn.text, <<"Y", "o", "u", " ", "s", "a", "i", "d", ":", " ">>)

\* the final user turns of the log before turn k
FinalUserTurnsBefore(k) == {j \in 1..(k - 1) : IsFinalUserTurn(turns[j])}

Newest(S) == CHOOSE j \in S : \A i \in S : i <= j

RecallReportsLastUserTurn ==
  /\ \A k \in 1..Len(turns) :
       IsRecallReply(turns[k])
         => IF FinalUserTurnsBefore(k) = {}
            THEN turns[k].text = NoRecord
            ELSE turns[k].text = YouSaid(turns[Newest(FinalUserTurnsBefore(k))].text)
  /\ fired = <<"recall">>
       => \E k \in 1..Len(turns) : k >= Len(turns) - 1 /\ IsRecallReply(turns[k])

\* a recall was answered from a restored log whose newest final user turn
\* is neither its first nor its last turn
RecallReportsLastUserTurnWitness ==
  /\ fired = <<"recall">>
  /\ \E k \in 1..Len(turns) : turns[k].text = YouSaid(<<"B", "u", "y", " ", "m", "i", "l", "k">>)

(***************************************************************************)
(* C6: a finalized transcript fires at most one action; the prefix rules   *)
(* come before the exact-match rules and the first matching rule wins; a   *)
(* transcript that matches no rule fires no action and the interpreter     *)
(* changes no state.                                                       *)
(***************************************************************************)
\* the transcript has a remember prefix and a payload that is not empty
MatchesPrefixRule(text) ==
  \E i \in 1..Len(rememberPrefixes) :
    /\ BeginsWithPrefix(text, i)
    /\ \E k \in 0..Len(Remainder(text, i)) :
         /\ IsPayload(Remainder(text, i), k)
         /\ k < Len(Remainder(text, i))

\* the exact-match rules in their order: the action of each and its phrases
ExactRules ==
  << <<"open-settings", openSettingsCommands>>,
     <<"close-settings", closeSettingsCommands>>,
     <<"start-session", startCommands>>,
     <<"stop-session", stopCommands>>,
     <<"recall", recallCommands>> >>

MatchesExactRule(text, n) ==
  includes(ExactRules[n][2], stripPunctuation(trim(toLowerCase(text))))

AtMostOneAction ==
  [][IsDeliverTranscript(TRUE)
       => LET text == Head(inflight).text
          IN /\ Len(fired') <= 1
             /\ MatchesPrefixRule(text) => fired' = <<"memory-append">>
             /\ \A n \in 1..Len(ExactRules) :
                  ( /\ ~MatchesPrefixRule(text)
                    /\ MatchesExactRule(text, n)
                    /\ \A m \in 1..(n - 1) : ~MatchesExactRule(text, m) )
                    => fired' \in { <<>>, <<ExactRules[n][1]>> }
             /\ ( /\ ~MatchesPrefixRule(text)
                  /\ \A n \in 1..Len(ExactRules) : ~MatchesExactRule(text, n) )
                  => /\ fired' = <<>>
                     /\ UNCHANGED <<clientVars, connected, coreMemory,
                                    isSidebarOpen>>
                     /\ SystemTurns(turns') = SystemTurns(turns)]_vars

\* "Close settings?" closed the sidebar, and nothing else happened
AtMostOneActionWitness ==
  /\ fired = <<"close-settings">>
  /\ ~isSidebarOpen
  /\ Len(SystemTurns(turns)) = 1
  /\ status = "Open"
  /\ coreMemory = <<>>

(***************************************************************************)
(* C7: of the chunks fed to the playback engine since its last stop, each  *)
(* is scheduled at max(device time, cursor), none starts before the end of *)
(* the one before, and the total scheduled duration is the sum of the      *)
(* durations of the chunks.                                                *)
(***************************************************************************)
RECURSIVE TotalScheduled(_)
TotalScheduled(q) ==
  IF q = <<>> THEN 0 ELSE Head(q).duration + TotalScheduled(Tail(q))

RECURSIVE TotalFed(_)
TotalFed(chunks) ==
  IF chunks = <<>> THEN 0 ELSE Duration(Head(chunks)) + TotalFed(Tail(chunks))

End(chunk) == chunk.start + chunk.duration

GaplessSchedule ==
  /\ [](streamer.ready
          => LET q == streamer.schedule
             IN /\ Len(q) = Len(fed)
                /\ TotalScheduled(q) = TotalFed(fed)
                /\ \A i \in 2..Len(q) : q[i].start >= End(q[i - 1])
                /\ q # <<>> => streamer.cursor = End(q[Len(q)]))
  /\ [][(IsDeliver /\ Head(inflight).type = "audio" /\ streamer.ready)
          => LET q == streamer.schedule
                 n == Len(q) + 1
             IN /\ Len(streamer'.schedule) = n
                /\ SubSeq(streamer'.schedule, 1, Len(q)) = q
                /\ streamer'.schedule[n].start = Max(deviceTime, streamer.cursor)
                /\ streamer'.schedule[n].duration = Duration(Head(inflight).data)]_vars

\* three chunks: the second was scheduled at the device time, which had
\* passed the cursor, the third at the cursor, ahead of the device time
GaplessScheduleWitness ==
  /\ Len(streamer.schedule) = 3
  /\ streamer.schedule[2].start > End(streamer.schedule[1])
  /\ streamer.schedule[3].start = End(streamer.schedule[2])
  /\ deviceTime < streamer.schedule[3].start

(***************************************************************************)
(* C8: a stop of the engine, on an interrupted event, empties the schedule *)
(* from any engine state, an empty one included; the chunk that follows a  *)
(* stop leaves the engine as the same chunk leaves a freshly constructed   *)
(* engine at the same device time.                                         *)
(***************************************************************************)
StopResets ==
  [][/\ (IsDeliver /\ Head(inflight).type = "interrupted" /\ streamer.ready)
          => /\ streamer'.schedule = <<>>
             /\ stops' = stops + 1
     /\ ( /\ IsDeliver
          /\ Head(inflight).type = "audio"
          /\ streamer.ready
          /\ stops > 0
          /\ fed = <<>> )
          => /\ streamer' = addPCM16(NewStreamer, deviceTime, Head(inflight).data)
             /\ streamer'.schedule =
                  << Scheduled(deviceTime, Duration(Head(inflight).data)) >>]_vars

\* chunk, interrupted, chunk at one device time: the first chunk had put the
\* cursor ahead of the device time when the stop came
StopResetsWitness ==
  /\ stops = 1
  /\ sent = 3
  /\ inflight = <<>>
  /\ deviceTime = 0
  /\ nextTransport = 1
  /\ streamer.schedule = << Scheduled(0, 2) >>

(***************************************************************************)
(* C9: disconnect() leaves the session Idle with no transport and the flag *)
(* false, from every state, and takes effect for the interpreter with no   *)
(* gap: the next finalized transcript dispatched after it is classified    *)
(* against "not connected" (a stop command does nothing, a start command   *)
(* connects).                                                              *)
(***************************************************************************)
DisconnectTakesEffectAtOnce ==
  [][/\ cancelled' # cancelled
          => status' = "Idle" /\ transport' = 0 /\ ~connected'
     /\ (IsDeliverTranscript(TRUE) /\ status = "Idle" /\ ~connected)
          => /\ Head(inflight).text = <<"s", "t", "o", "p">> => fired' = <<>>
             /\ Head(inflight).text = <<"c", "o", "n", "n", "e", "c", "t">>
                  => fired' = <<"start-session">>]_vars

NoAutomaticReconnection ==
  [][/\ PeerCloses
          => /\ status' = "Closed"
             /\ transport' = 0
             /\ ~connected'
             /\ transport \notin pendingAck'
     /\ (status = "Closed" /\ status' \in {"Connecting", "Open"})
          => /\ HostConnect \/ fired' = <<"start-session">>
             /\ status' = "Connecting"
             /\ nextTransport' = nextTransport + 1]_vars

\* an open session, whose handlers held connected = true, was closed by
\* the peer
NoAutomaticReconnectionWitness ==
  /\ status = "Closed"
  /\ transport = 0
  /\ ~connected
  /\ hConnected
  /\ nextTransport = 1

(***************************************************************************)
(* C13: sendToolResponse succeeds only in Open: in every other state it    *)
(* fails with NotConnectedError and transmits nothing, so the tool-call    *)
(* bridge transmits no response batch on a session that is not Open.       *)
(***************************************************************************)
IsDeliverToolCall == IsDeliver /\ Head(inflight).type = "toolcall"

RespondsOnlyWhenOpen ==
  [][/\ IsDeliverToolCall
          => IF status = "Open"
             THEN Len(upstream') = Len(upstream) + 1 /\ thrown' = "none"
             ELSE upstream' = upstream /\ thrown' = NotConnectedError
     /\ upstream' # upstream => status = "Open" /\ IsDeliverToolCall]_vars

\* a tool call was dispatched after the host had disconnected: the bridge
\* logged it, and nothing was transmitted
RespondsOnlyWhenOpenWitness ==
  /\ thrown = NotConnectedError
  /\ status = "Idle"
  /\ upstream = <<>>
  /\ Len(turns) = 3

(***************************************************************************)
(* C14: the response batch sent for a tool-call batch holds one response   *)
(* per function call, in the order of the calls, each with the id and the  *)
(* name of its call and the same fixed result whatever the name and the    *)
(* arguments; the log entry of every call is appended before the batch is  *)
(* sent.                                                                   *)
(***************************************************************************)
OneResponsePerCall ==
  [][(IsDeliverToolCall /\ status = "Open")
       => LET functionCalls == Head(inflight).data
              n == Len(functionCalls)
              batch == upstream'[Len(upstream')]
          IN /\ upstream' = Append(upstream, batch)
             /\ Len(batch.functionResponses) = n
             /\ \A i \in 1..n :
                  /\ batch.functionResponses[i].id = functionCalls[i].id
                  /\ batch.functionResponses[i].name = functionCalls[i].name
                  /\ batch.functionResponses[i].response = [result |-> <<"o", "k">>]
             /\ Len(turns') >= Len(turns) + n
             /\ SubSeq(turns', 1, Len(turns)) = turns
             /\ \A i \in 1..n :
                  /\ IsSystemTurn(turns'[Len(turns) + i])
                  /\ turns'[Len(turns) + i].text = triggerMessage(functionCalls[i])
             /\ batch.turnsBefore >= Len(turns) + n]_vars

\* two batches were answered; the second held the calls lookup and get_time,
\* in this order
OneResponsePerCallWitness ==
  /\ Len(upstream) = 2
  /\ Len(upstream[2].functionResponses) = 2
  /\ upstream[2].functionResponses[1].name = <<"l", "o", "o", "k", "u", "p">>
  /\ upstream[2].functionResponses[2].id = <<"c", "1">>
  /\ inflight = <<>>

(***************************************************************************)
(* C15: every inbound event is delivered once to every handler registered  *)
(* for it at that moment, in registration order, and fully before the next *)
(* event; the events reach each handler in the order the transport         *)
(* produced them, none dropped, merged or reordered, also across the       *)
(* unbinding and binding anew of the hook's handlers.                      *)
(***************************************************************************)
\* the handlers registered for the event, in registration order
Registered(e) ==
  IF e.type = "inputTranscription"
  THEN listeners
  ELSE IF e.type = "outputTranscription"
  THEN <<"console">>
  ELSE <<"hook">>

IsHeardByHook(h) == h[1] = "hook"

IsHeardByConsole(h) == h[1] = "console"

IsTranscriptHeard(h) == h[2].type = "inputTranscription"

\* the events of a list of dispatches
Events(hs) == [i \in 1..Len(hs) |-> hs[i][2]]

IsUserTurn(turn) == turn.role = "user"

IsAgentTurn(turn) == turn.role = "agent"

\* the turns of a role in the log
TurnsOf(role, log) ==
  IF role = "user" THEN SelectSeq(log, IsUserTurn) ELSE SelectSeq(log, IsAgentTurn)

\* the role a transcript event speaks for
SpeakerOf(e) == IF e.type = "inputTranscription" THEN "user" ELSE "agent"

IsDeliverChunk ==
  /\ IsDeliver
  /\ Head(inflight).type \in {"inputTranscription", "outputTranscription"}

ChunkJoinsTurnOfItsRole ==
  [][IsDeliverChunk
       => LET e == Head(inflight)
              before == TurnsOf(SpeakerOf(e), turns)
              after == TurnsOf(SpeakerOf(e), turns')
          IN IF before # <<>> /\ ~before[Len(before)].isFinal
             THEN after = [before EXCEPT ![Len(before)] =
                             Turn(SpeakerOf(e), @.text \o e.text, e.isFinal)]
             ELSE after = Append(before, Turn(SpeakerOf(e), e.text, e.isFinal))]_vars

(***************************************************************************)
(* C17: the accumulation of the user's transcript and of the agent's are   *)
(* independent: the turns recorded for a role are those its chunks give on *)
(* their own, whatever events of the other role and whatever system        *)
(* entries come between them.                                              *)
(***************************************************************************)
RolesAccumulateAlone ==
  /\ TurnsOf("user", turns) = alone[RoleIndex("user")]
  /\ TurnsOf("agent", turns) = alone[RoleIndex("agent")]

GenerateTextAlwaysReturns ==
  /\ [](generated[1] # "threw")
  /\ [][\A outcome \in Outcomes :
          (ReconstructionSettles(outcome) \/ CompletionSettles(outcome))
            => generated' = Returned(IF outcome.failed
                                     THEN GenerateTextFailed
                                     ELSE outcome.text)]_vars

\* a request has failed, and the caller got the failure string as its text
GenerateTextAlwaysReturnsWitness ==
  /\ generated = Returned(GenerateTextFailed)
  /\ ~isReconstructing
  /\ reconstructedMemory = GenerateTextFailed

(***************************************************************************)
(* C20: every recognized failure is surfaced as a log entry: when the text *)
(* request behind memory reconstruction or thought completion fails, the   *)
(* log gets the entry that reports the failure, and when a connect started *)
(* by a voice command fails, the log gets an entry.                        *)
(***************************************************************************)
FailuresAreLogged ==
  [][/\ ReconstructionSettles(Outcome(<<>>, TRUE))
          => turns' = Append(turns,
                  Turn("system",
                       <<"M", "e", "m", "o", "r", "y", " ", "r", "e", "c", "o", "n", "s", "t", "r", "u", "c", "t", "i", "o", "n", " ", "f", "a", "i", "l", "e", "d", ".", " ", "P", "l", "e", "a", "s", "e", " ", "c", "h", "e", "c", "k", " ", "t", "h", "e", " ", "c", "o", "n", "s", "o", "l", "e", " ", "f", "o", "r", " ", "e", "r", "r", "o", "r", "s", ".">>,
                       TRUE))
     /\ CompletionSettles(Outcome(<<>>, TRUE))
          => turns' = Append(turns,
                  Turn("system",
                       <<"T", "h", "o", "u", "g", "h", "t", " ", "c", "o", "m", "p", "l", "e", "t", "i", "o", "n", " ", "f", "a", "i", "l", "e", "d", ".", " ", "P", "l", "e", "a", "s", "e", " ", "c", "h", "e", "c", "k", " ", "t", "h", "e", " ", "c", "o", "n", "s", "o", "l", "e", " ", "f", "o", "r", " ", "e", "r", "r", "o", "r", "s", ".">>,
                       TRUE))
     /\ (PeerCloses /\ status = "Connecting" /\ transport \in voiced)
          => /\ Len(turns') = Len(turns) + 1
             /\ turns'[Len(turns')].role = "system"]_vars

\* the text that is matched against the exact-match command sets
Command(text) == stripPunctuation(trim(toLowerCase(text)))

\* this step dispatches a final transcript that no prefix rule takes and
\* whose command is one of the phrases
IsDeliverCommand(phrases) ==
  /\ IsDeliverTranscript(TRUE)
  /\ ~MatchesPrefixRule(Head(inflight).text)
  /\ includes(phrases, Command(Head(inflight).text))

\* the interpreter does nothing at this step
NothingFires ==
  /\ fired' = <<>>
  /\ UNCHANGED <<clientVars, connected, coreMemory, isSidebarOpen>>
  /\ SystemTurns(turns') = SystemTurns(turns)

(***************************************************************************)
(* C21: the exact-match commands are guarded on the current state: an open *)
(* command never closes the sidebar and does nothing when it is open, a    *)
(* close command never opens it and does nothing when it is closed, a      *)
(* start command does nothing while connected, a stop command does nothing *)
(* while disconnected; a guarded command that does nothing writes no log   *)
(* entry.                                                                  *)
(***************************************************************************)
GuardedOnCurrentState ==
  [][/\ IsDeliverCommand(openSettingsCommands)
          => /\ isSidebarOpen'
             /\ isSidebarOpen => NothingFires
     /\ IsDeliverCommand(closeSettingsCommands)
          => /\ ~isSidebarOpen'
             /\ ~isSidebarOpen => NothingFires
     /\ (IsDeliverCommand(startCommands) /\ connected) => NothingFires
     /\ (IsDeliverCommand(stopCommands) /\ ~connected) => NothingFires]_vars

\* the log entries the step adds
NewSystemTurns ==
  SubSeq(SystemTurns(turns'), Len(SystemTurns(turns)) + 1, Len(SystemTurns(turns')))

\* what the step adds to the core memory, without the "- " that begins a line
NewMemory ==
  SubSeq(coreMemory',
         Len(coreMemory) + (IF coreMemory = <<>> THEN 3 ELSE 4),
         Len(coreMemory'))

(***************************************************************************)
(* C22: every command action that fires (memory append, sidebar toggle,    *)
(* connect, disconnect, recall) writes a log entry that describes the      *)
(* recognized command, within the handling of the transcript that fires    *)
(* it, and no command log entry is written when no action fires.           *)
(***************************************************************************)
CommandIsLogged ==
  [][/\ IsDeliverTranscript(FALSE) => NewSystemTurns = <<>>
     /\ IsDeliverTranscript(TRUE)
          => LET recognized ==
                   Turn("system",
                        VoiceCommandRecognized(Command(Head(inflight).text)),
                        TRUE)
             IN /\ SystemTurns(turns') = SystemTurns(turns) \o NewSystemTurns
                /\ fired' = <<>> => NewSystemTurns = <<>>
                /\ ( \/ coreMemory' # coreMemory
                     \/ isSidebarOpen' # isSidebarOpen
                     \/ status' # status
                     \/ transport' # transport
                     \/ connected' # connected ) => NewSystemTurns # <<>>
                /\ fired' = <<"memory-append">>
                     => NewSystemTurns =
                          << Turn("system", AddedToCoreMemory(NewMemory), TRUE) >>
                /\ fired' \in { <<"open-settings">>, <<"close-settings">>,
                                <<"start-session">>, <<"stop-session">> }
                     => NewSystemTurns = << recognized >>
                /\ fired' = <<"recall">>
                     => /\ Len(NewSystemTurns) = 2
                        /\ NewSystemTurns[1] = recognized]_vars

\* " Stop Stream. " has disconnected the session, and the last turn of the log
\* names the command
CommandIsLoggedWitness ==
  /\ fired = <<"stop-session">>
  /\ status = "Idle"
  /\ ~connected
  /\ turns # <<>>
  /\ turns[Len(turns)] = Turn("system", VoiceCommandRecognized(<<"s", "t", "o", "p", " ", "s", "t", "r", "e", "a", "m">>), TRUE)

\* s without the punctuation characters it ends with
RECURSIVE WithoutTrailingPunctuation(_)
WithoutTrailingPunctuation(s) ==
  IF s # <<>> /\ s[Len(s)] \in Punctuation
  THEN WithoutTrailingPunctuation(SubSeq(s, 1, Len(s) - 1))
  ELSE s

\* the transcript in lower case, trimmed, without trailing punctuation
Normalized(text) == WithoutTrailingPunctuation(trim(toLowerCase(text)))

(***************************************************************************)
(* C23: the text matched against the exact-match command sets is the       *)
(* transcript in lower case, trimmed, with only the trailing punctuation   *)
(* removed: an exact-match action fires only for a final transcript whose  *)
(* normalization is one of its phrases, a recall fires for every such      *)
(* transcript, and punctuation inside the text is not removed.             *)
(***************************************************************************)
MatchesNormalizedText ==
  [][(IsDeliverTranscript(TRUE) /\ ~MatchesPrefixRule(Head(inflight).text))
       => /\ \A n \in 1..Len(ExactRules) :
               fired' = <<ExactRules[n][1]>>
                 => includes(ExactRules[n][2], Normalized(Head(inflight).text))
          /\ includes(recallCommands, Normalized(Head(inflight).text))
               => fired' = <<"recall">>]_vars

IsDeliverAudio == IsDeliver /\ Head(inflight).type = "audio"

(***************************************************************************)
(* C25: every audio chunk the session delivers is handed to the playback   *)
(* engine exactly once and in arrival order, also a chunk that arrives     *)
(* before the creation of the engine has completed: the dispatch of a      *)
(* chunk puts it at the end of what the engine was fed and schedules it.   *)
(***************************************************************************)
EveryChunkReachesEngine ==
  [][IsDeliverAudio
       => /\ fed' = Append(fed, Head(inflight).data)
          /\ Len(streamer'.schedule) = Len(streamer.schedule) + 1]_vars

(***************************************************************************)
(* C26: whenever the connected flag of the hook is true, the session of    *)
(* the current client is Open: the flag is never true while that session   *)
(* is Idle, Connecting or Closed, also after the client was replaced.      *)
(***************************************************************************)
ConnectedMeansOpen == connected => status = "Open"

(***************************************************************************)
(* C27: when a final recall command fires, the utterance it reports is one *)
(* the user had finished before the recall command: the reply quotes the   *)
(* newest final user turn the log held before the dispatch, or says that   *)
(* there is no record when it held none, in whatever order the transcript  *)
(* logger and the interpreter receive the event.                           *)
(***************************************************************************)
RecallReportsEarlierUtterance ==
  [][(IsDeliverTranscript(TRUE) /\ fired' = <<"recall">>)
       => LET reply == SystemTurns(turns')[Len(SystemTurns(turns'))].text
              k == lastUserTurn(turns)
          IN IF k = 0
             THEN reply = NoRecord
             ELSE reply = YouSaid(turns[k].text)]_vars

\* the updates the transcript handlers make
Updates == { [text |-> text, isFinal |-> isFinal] : text \in Chunks, isFinal \in BOOLEAN }

(***************************************************************************)
(* C28: between two clearTurns the turn log only grows and final turns do  *)
(* not change.  addTurn appends at the end; updateLastTurn changes the     *)
(* text and isFinal of the last turn only, not its role, not the length of *)
(* the log, and nothing of an empty log; and no step but a clearing        *)
(* changes a turn that is final or is not the last one, nor the role of    *)
(* any turn.                                                               *)
(***************************************************************************)
TurnLogOnlyGrows ==
  /\ [](/\ \A isFinal \in BOOLEAN :
             addTurn(Cur, Turn("agent", <<"l", "o">>, isFinal)).turns
               = Append(turns, Turn("agent", <<"l", "o">>, isFinal))
        /\ \A update \in Updates :
             LET after == updateLastTurn(Cur, update).turns
             IN /\ Len(after) = Len(turns)
                /\ \A k \in 1..(Len(turns) - 1) : after[k] = turns[k]
                /\ turns # <<>>
                     => after[Len(turns)] =
                          Turn(turns[Len(turns)].role, update.text, update.isFinal))
  /\ [][~HostClearsHistory
          => /\ Len(turns') >= Len(turns)
             /\ \A k \in 1..Len(turns) :
                  /\ turns'[k].role = turns[k].role
                  /\ (k < Len(turns) \/ turns[k].isFinal) => turns'[k] = turns[k]]_vars

\* after a clearing, the chunks 'Hel' and 'lo' have made one final user turn,
\* and a model turn has followed it
TurnLogOnlyGrowsWitness ==
  /\ Len(turns) = 3
  /\ turns[1] = Turn("system", <<"C", "o", "n", "v", "e", "r", "s", "a", "t", "i", "o", "n", " ", "h", "i", "s", "t", "o", "r", "y", " ", "c", "l", "e", "a", "r", "e", "d", ".">>, TRUE)
  /\ turns[2] = Turn("user", <<"H", "e", "l", "l", "o">>, TRUE)
  /\ turns[3] = Turn("agent", <<"H", "i", " ">>, TRUE)

\* the texts of a sequence of turns or of events, one after the other
RECURSIVE TextOf(_)
TextOf(seq) ==
  IF seq = <<>> THEN <<>> ELSE Head(seq).text \o TextOf(Tail(seq))

IsUserChunkHeard(h) == h[1] = "console" /\ h[2].type = "inputTranscription"

IsAgentChunkHeard(h) == h[1] = "console" /\ h[2].type = "outputTranscription"

\* the transcript chunks of a role the logger has received, in arrival order
ChunksOf(role) ==
  IF role = "user"
  THEN Events(SelectSeq(heard, IsUserChunkHeard))
  ELSE Events(SelectSeq(heard, IsAgentChunkHeard))

====
